---- MODULE Spec2Model ----
(***************************************************************************)
(* Model of the snake engine of lorber13/snake (src/app/snake.rs): the     *)
(* run-length encoded body, the turn legality filter, the step, the food   *)
(* relocation and the two collision predicates; and of the game loop of    *)
(* src/app.rs (App::run) with the engine it carries.                       *)
(***************************************************************************)
EXTENDS Integers, Sequences, FiniteSets, TLC

VARIABLES
    area,        \* Snake.area: Rect (x, y, width, height)
    head_pos,    \* Snake.head_pos: Position (x, y), u16 coordinates
    segments,    \* Snake.segments: VecDeque<Segment>, front = tail, back = head
    food_pos,    \* Snake.food_pos: Position
    status,      \* "ok"; "panic" once a call has aborted the process;
                 \* "wrapped" once an integer has wrapped around
    prev,        \* history: the state and the argument of the last call
    candidates,  \* history: the range the last food relocation drew from
    result,      \* <<value>> returned by the query of a query specification, or <<>>
    food_color,  \* Snake.food_color
    snake_color, \* Snake.snake_color
    straight,    \* history: calls in a row whose request was not perpendicular
    exit,        \* App.exit
    pc,          \* App::run: "loop" (at the while test), "events" (in the
                 \* while-let loop of a tick), "returned"; "none" without a loop
    next_direction, \* the local next_direction of App::run
    frames,      \* history: frames drawn by App::run
    tick         \* history of the current tick of App::run

driver_vars == <<exit, pc, next_direction, frames, tick>>

vars == <<area, head_pos, segments, food_pos, status, prev, candidates, result,
          food_color, snake_color, straight, exit, pc, next_direction, frames,
          tick>>

----------------------------------------------------------------------------
(* Bounds of the model *)

MaxOrigin == 1     \* area.x and area.y are 0 or MaxOrigin
MaxWidth == 5      \* area.width ranges over 3..MaxWidth
MaxHeight == 4     \* area.height ranges over 3..MaxHeight
MaxInitLen == 2    \* the initial snake is one straight run of 1..MaxInitLen
MaxBody == 5       \* the snake does not grow beyond MaxBody cells
MaxRuns == 4       \* run sequences of the self-intersection check
MaxRunLen == 2     \* run lengths of the self-intersection check
MaxCoord == 6      \* largest offset of the coordinates of the border check
MaxTicks == 16     \* ticks of App::run (the food at (17,3) is out of reach)
MaxEvents == 2     \* events read in one tick of App::run
MaxArrowTicks == 2 \* arrow keys are pressed in the first MaxArrowTicks ticks
TermWidth == 30    \* width of the terminal frame App::run draws into
TermHeight == 34   \* height of the terminal frame App::run draws into

(* Program constants *)

U16Max == 65535    \* Position.x, Position.y and the Rect fields are u16
FoodModulus == 25  \* App::move_snake: rand::random::<u16>() % 25

----------------------------------------------------------------------------
(* Direction *)

Direction == {"North", "East", "South", "West"}

opposite(d) ==
    CASE d = "North" -> "South"
      [] d = "East"  -> "West"
      [] d = "South" -> "North"
      [] d = "West"  -> "East"

(* Position *)

Pos(px, py) == [x |-> px, y |-> py]

ORIGIN == Pos(0, 0)

\* Position::shift panics in a build with overflow checks when the u16
\* coordinate leaves 0..65535 ...
shift_overflows(pos, direction) ==
    CASE direction = "North" -> pos.y = 0
      [] direction = "East"  -> pos.x = U16Max
      [] direction = "South" -> pos.y = U16Max
      [] direction = "West"  -> pos.x = 0

\* Mutant of shift: the y axis grows to the north.
shift_y_up(pos, direction) ==
    CASE direction = "North" -> Pos(pos.x, (pos.y + 1) % (U16Max + 1))
      [] direction = "East"  -> Pos((pos.x + 1) % (U16Max + 1), pos.y)
      [] direction = "South" -> Pos(pos.x, (pos.y - 1) % (U16Max + 1))
      [] direction = "West"  -> Pos((pos.x - 1) % (U16Max + 1), pos.y)

\* ... and wraps around in a build without them.
shift(pos, direction) ==
    CASE direction = "North" -> Pos(pos.x, (pos.y - 1) % (U16Max + 1))
      [] direction = "East"  -> Pos((pos.x + 1) % (U16Max + 1), pos.y)
      [] direction = "South" -> Pos(pos.x, (pos.y + 1) % (U16Max + 1))
      [] direction = "West"  -> Pos((pos.x - 1) % (U16Max + 1), pos.y)

(* Rect (ratatui::layout::Rect), as the engine uses it *)

Rect(rx, ry, rw, rh) == [x |-> rx, y |-> ry, width |-> rw, height |-> rh]

ZERO == Rect(0, 0, 0, 0)

saturating_add(a, b) == IF a + b > U16Max THEN U16Max ELSE a + b

saturating_sub(a, b) == IF a - b < 0 THEN 0 ELSE a - b

\* Rect::inner(Margin { horizontal: 1, vertical: 1 })
inner(r) ==
    IF r.width < 2 \/ r.height < 2
    THEN ZERO
    ELSE Rect(saturating_add(r.x, 1), saturating_add(r.y, 1),
              saturating_sub(r.width, 2), saturating_sub(r.height, 2))

\* Rect::contains(position)
contains(r, pos) ==
    /\ pos.x >= r.x
    /\ pos.x < saturating_add(r.x, r.width)
    /\ pos.y >= r.y
    /\ pos.y < saturating_add(r.y, r.height)

\* Mutant of random_range: both ranges start at 0.
random_range_from_zero(r) ==
    {Pos(px, py) : px \in 0 .. (r.width - 1), py \in 0 .. (r.height - 1)}

\* Position::random_range: the positions rand::random_range can return for
\* x in area.x..area.width and y in area.y..area.height; rand panics when a
\* range is empty, which is the case when this set is empty.
random_range(r) ==
    {Pos(px, py) : px \in r.x .. (r.width - 1), py \in r.y .. (r.height - 1)}

----------------------------------------------------------------------------
(* Snake *)

Segment(d, n) == [direction |-> d, length |-> n]

head_direction(segs) == segs[Len(segs)].direction

\* Mutant of legal_direction: only the heading itself is filtered, a reversal
\* is let through.
legal_direction_lets_reversal(curr_direction, direction) == direction

legal_direction(curr_direction, direction) ==
    IF <<curr_direction, direction>> \in
          { <<"North", "East">>, <<"North", "West">>,
            <<"East", "North">>, <<"East", "South">>,
            <<"South", "East">>, <<"South", "West">>,
            <<"West", "North">>, <<"West", "South">> }
    THEN direction
    ELSE curr_direction

\* Snake::shift_head, the run sequence part
shift_head(segs, direction) ==
    IF segs[Len(segs)].direction # direction
    THEN Append(segs, Segment(direction, 1))
    ELSE [segs EXCEPT ![Len(segs)].length = @ + 1]

\* Snake::shift_tail aborts on an empty deque (unwrap) ...
shift_tail_unwraps_none(segs) == segs = <<>>

\* ... and its usize subtraction underflows on a front run of length 0: a
\* panic with overflow checks, a run of usize::MAX cells without them.
shift_tail_underflows(segs) == segs # <<>> /\ segs[1].length = 0

\* Mutant of shift_tail: a front run that reaches length 0 stays in the deque.
shift_tail_keeps_empty_run(segs) == [segs EXCEPT ![1].length = @ - 1]

\* Mutant of shift_tail: the whole front run is dropped.
shift_tail_drops_run(segs) == Tail(segs)

shift_tail(segs) ==
    LET length == segs[1].length - 1
    IN IF length = 0
       THEN Tail(segs)
       ELSE [segs EXCEPT ![1].length = length]

\* Mutant of touches_border: containment in the area itself.
touches_border_outer(r, pos) == ~contains(r, pos)

touches_border(r, pos) == ~contains(inner(r), pos)

\* Mutant of crosses_head: a counter that jumps over 0 is not noticed.
crosses_head_zero_only(other_counter, counter, prev_counter) ==
    other_counter = 0 /\ counter = 0

\* the test each arm of the match in Snake::has_self_intersection applies
\* after moving its counter: the run passes through the head's row or column
\* (the other counter is 0) and reaches or crosses displacement 0
crosses_head(other_counter, counter, prev_counter) ==
    /\ other_counter = 0
    /\ \/ counter = 0
       \/ (counter < 0 /\ prev_counter > 0)
       \/ (counter > 0 /\ prev_counter < 0)

RECURSIVE intersection_scan(_, _, _, _)
\* the loop of Snake::has_self_intersection, at the i-th run counted from the
\* front, with the counters accumulated over the runs nearer to the head
intersection_scan(segs, i, horizontal_counter, vertical_counter) ==
    IF i = 0
    THEN FALSE
    ELSE
      LET segment == segs[i]
          prev_horizontal_counter == horizontal_counter
          prev_vertical_counter == vertical_counter
          new_vertical ==
              CASE segment.direction = "North" -> vertical_counter + segment.length
                [] segment.direction = "South" -> vertical_counter - segment.length
                [] OTHER -> vertical_counter
          new_horizontal ==
              CASE segment.direction = "East" -> horizontal_counter + segment.length
                [] segment.direction = "West" -> horizontal_counter - segment.length
                [] OTHER -> horizontal_counter
          hit ==
              IF segment.direction \in {"North", "South"}
              THEN crosses_head(horizontal_counter, new_vertical, prev_vertical_counter)
              ELSE crosses_head(vertical_counter, new_horizontal, prev_horizontal_counter)
      IN IF hit
         THEN TRUE
         ELSE intersection_scan(segs, i - 1, new_horizontal, new_vertical)

\* Mutant of has_self_intersection: the front run is not visited.
has_self_intersection_skips_front(segs) ==
    intersection_scan(Tail(segs), Len(segs) - 1, 0, 0)

has_self_intersection(segs) == intersection_scan(segs, Len(segs), 0, 0)

RECURSIVE unit_steps(_)
\* the headings of the unit steps the runs stand for, oldest first
unit_steps(segs) ==
    IF segs = <<>>
    THEN <<>>
    ELSE [i \in 1 .. segs[1].length |-> segs[1].direction] \o unit_steps(Tail(segs))

body_length(segs) == Len(unit_steps(segs))

RECURSIVE walk(_, _, _)
\* start_pos of Widget::render, k iterations of its inner loop after it was
\* pos with the unit steps in steps still ahead (taken from the back)
walk(pos, steps, k) ==
    IF k = 0
    THEN pos
    ELSE walk(shift(pos, opposite(steps[Len(steps)])),
              SubSeq(steps, 1, Len(steps) - 1), k - 1)

\* start_pos of Widget::render after k iterations of its inner loop
walk_back(head, segs, k) == walk(head, unit_steps(segs), k)

RECURSIVE paint(_, _)
\* the cells the loops of Widget::render paint from start_pos on
paint(pos, steps) ==
    IF steps = <<>>
    THEN <<>>
    ELSE <<pos>> \o paint(shift(pos, opposite(steps[Len(steps)])),
                          SubSeq(steps, 1, Len(steps) - 1))

\* the cells Widget::render paints for the snake, head first
painted_cells(head, segs) == paint(head, unit_steps(segs))

cell_set(head, segs) ==
    {painted_cells(head, segs)[k] : k \in 1 .. body_length(segs)}

----------------------------------------------------------------------------
(* Snake::move_snake: the set of states the call can end in *)

Outcome(head, segs, food, st, cand) ==
    [head_pos |-> head, segments |-> segs, food_pos |-> food,
     status |-> st, candidates |-> cand]

\* Mutant of move_snake: the test for the food is inverted.
move_snake_inverted_test(head, segs, food, r, cand, direction) ==
    LET new_head == shift(head, direction)
        new_segs == shift_head(segs, direction)
        range == random_range(inner(r))
    IN IF new_head # food
       THEN IF range = {}
            THEN {Outcome(new_head, new_segs, food, "panic", range)}
            ELSE {Outcome(new_head, new_segs, p, "ok", range) : p \in range}
       ELSE {Outcome(new_head, shift_tail(new_segs), food, "ok", cand)}

move_snake(head, segs, food, r, cand, direction) ==
    LET new_head == shift(head, direction)
        new_segs == shift_head(segs, direction)
        range == random_range(inner(r))
        shifted ==
            IF new_head = food
            THEN IF range = {}
                 THEN {Outcome(new_head, new_segs, food, "panic", range)}
                 ELSE {Outcome(new_head, new_segs, p, "ok", range) : p \in range}
            ELSE IF shift_tail_unwraps_none(new_segs)
                 THEN {Outcome(new_head, new_segs, food, "panic", cand)}
                 ELSE IF shift_tail_underflows(new_segs)
                 THEN {Outcome(new_head, new_segs, food, "panic", cand),
                       Outcome(new_head, new_segs, food, "wrapped", cand)}
                 ELSE {Outcome(new_head, shift_tail(new_segs), food, "ok", cand)}
    IN IF shift_overflows(head, direction)
       THEN {Outcome(head, segs, food, "panic", cand)}
            \cup {[o EXCEPT !.status = "wrapped"] : o \in shifted}
       ELSE shifted

\* Snake::update_snake_position(input).  The caller stops advancing the snake
\* once the head has touched the border (the coordinates are u16), and a
\* panic ends the process.  Growth is cut off at MaxBody cells.
update_snake_position(input) ==
    /\ status = "ok"
    /\ ~touches_border(area, head_pos)
    /\ segments # <<>>
    /\ LET direction == legal_direction(head_direction(segments), input)
       IN /\ (shift(head_pos, direction) = food_pos
                 => body_length(segments) < MaxBody)
          /\ \E o \in move_snake(head_pos, segments, food_pos, area,
                                 candidates, direction) :
                /\ head_pos' = o.head_pos
                /\ segments' = o.segments
                /\ food_pos' = o.food_pos
                /\ status' = o.status
                /\ candidates' = o.candidates
    /\ prev' = [head_pos |-> head_pos, segments |-> segments,
                food_pos |-> food_pos, input |-> input]
    /\ result' = <<>>
    /\ UNCHANGED <<area, food_color, snake_color>>

----------------------------------------------------------------------------
(* The engine from every legal initial configuration *)

NoPrev == [head_pos |-> ORIGIN, segments |-> <<>>, food_pos |-> ORIGIN,
           input |-> "none"]

Areas ==
    {Rect(rx, ry, rw, rh) : rx \in {0, MaxOrigin}, ry \in {0, MaxOrigin},
                            rw \in 3 .. MaxWidth, rh \in 3 .. MaxHeight}

InteriorCells(r) ==
    {Pos(px, py) : px \in (r.x + 1) .. (r.x + r.width - 2),
                   py \in (r.y + 1) .. (r.y + r.height - 2)}

\* count: ticks started; heading: the back run's direction at the start of
\* the tick; last_key: the last arrow key pressed in the tick; events: events
\* read in the tick; applied: the direction passed to move_snake in the tick;
\* moves: calls of move_snake so far; moved_after_quit: one of them came after
\* the quit key
NoTick == [count |-> 0, heading |-> "none", last_key |-> "none", events |-> 0,
           applied |-> "none", moves |-> 0, moved_after_quit |-> FALSE]

\* no game loop runs: the engine is called directly
NoDriver ==
    /\ straight = 0
    /\ exit = FALSE
    /\ pc = "none"
    /\ next_direction = "none"
    /\ frames = 0
    /\ tick = NoTick

Init ==
    /\ area \in Areas
    /\ \E d \in Direction, n \in 1 .. MaxInitLen :
          segments = <<Segment(d, n)>>
    /\ head_pos \in InteriorCells(area)
    /\ cell_set(head_pos, segments) \subseteq InteriorCells(area)
    /\ food_pos \in InteriorCells(area) \ cell_set(head_pos, segments)
    /\ status = "ok"
    /\ prev = NoPrev
    /\ candidates = {}
    /\ result = <<>>
    /\ food_color = "Green"
    /\ snake_color = "Yellow"
    /\ NoDriver

\* a call of update_snake_position by a caller that is not modelled further
engine_step ==
    \E input \in Direction :
        update_snake_position(input) /\ UNCHANGED <<straight, driver_vars>>

Next == engine_step

Spec == Init /\ [][Next]_vars

----------------------------------------------------------------------------
(* has_self_intersection() on every run sequence, built as the tests of     *)
(* snake.rs build their snakes: head at ORIGIN, food at ORIGIN, Rect::ZERO  *)

Runs == {Segment(d, n) : d \in Direction, n \in 1 .. MaxRunLen}

RunSequences == UNION {[1 .. n -> Runs] : n \in 1 .. MaxRuns}

InitIntersect ==
    /\ area = ZERO
    /\ head_pos = ORIGIN
    /\ food_pos = ORIGIN
    /\ segments \in RunSequences
    /\ status = "ok"
    /\ prev = NoPrev
    /\ candidates = {}
    /\ result = <<>>
    /\ food_color = "Black"
    /\ snake_color = "Black"
    /\ NoDriver

has_self_intersection_call ==
    /\ result = <<>>
    /\ result' = <<has_self_intersection(segments)>>
    /\ UNCHANGED <<area, head_pos, segments, food_pos, status, prev, candidates,
                   food_color, snake_color, straight, driver_vars>>

NextIntersect == has_self_intersection_call

SpecIntersect == InitIntersect /\ [][NextIntersect]_vars

----------------------------------------------------------------------------
(* touches_border() on every area rectangle and head position *)

CoordOrigins == {0, 1, U16Max - MaxCoord}

Coords == UNION {{o + c : c \in 0 .. MaxCoord} : o \in CoordOrigins}

BorderAreas ==
    {Rect(rx, ry, rw, rh) : rx \in CoordOrigins, ry \in CoordOrigins,
                            rw \in 0 .. MaxCoord, rh \in 0 .. MaxCoord}

InitBorder ==
    /\ area \in BorderAreas
    /\ head_pos \in {Pos(px, py) : px \in Coords, py \in Coords}
    /\ food_pos = ORIGIN
    /\ segments = <<Segment("East", 1)>>
    /\ status = "ok"
    /\ prev = NoPrev
    /\ candidates = {}
    /\ result = <<>>
    /\ food_color = "Green"
    /\ snake_color = "Yellow"
    /\ NoDriver

touches_border_call ==
    /\ result = <<>>
    /\ result' = <<touches_border(area, head_pos)>>
    /\ UNCHANGED <<area, head_pos, segments, food_pos, status, prev, candidates,
                   food_color, snake_color, straight, driver_vars>>

NextBorder == touches_border_call

SpecBorder == InitBorder /\ [][NextBorder]_vars

----------------------------------------------------------------------------
(* The engine with its queries called between the steps *)

head_direction_call ==
    /\ result = <<>>
    /\ segments # <<>>
    /\ result' = <<head_direction(segments)>>
    /\ UNCHANGED <<area, head_pos, segments, food_pos, status, prev, candidates,
                   food_color, snake_color, straight, driver_vars>>

NextFrame ==
    \/ engine_step
    \/ (status = "ok" /\ touches_border_call)
    \/ (status = "ok" /\ has_self_intersection_call)
    \/ (status = "ok" /\ head_direction_call)

SpecFrame == Init /\ [][NextFrame]_vars

----------------------------------------------------------------------------
(* The engine with the calls that keep the heading counted *)

\* a call of update_snake_position; straight counts the calls in a row whose
\* request was the heading or its opposite
counted_step ==
    \E input \in Direction :
        /\ update_snake_position(input)
        /\ straight' = IF input \in {head_direction(segments),
                                     opposite(head_direction(segments))}
                       THEN straight + 1
                       ELSE 0
        /\ UNCHANGED driver_vars

NextStraight == counted_step

SpecStraight == Init /\ [][NextStraight]_vars

----------------------------------------------------------------------------
(* The game loop of src/app.rs: App::run and the engine App carries.  The   *)
(* I/O errors of draw and read_event are left out.                          *)

KeyCodes == {"Up", "Down", "Left", "Right", "q", "x"}

ArrowKeys == {"Up", "Down", "Left", "Right"}

\* crossterm events: key events of kind Press or Release
Events == {[press |-> b, code |-> k] : b \in BOOLEAN, k \in KeyCodes}

\* Direction::from_key of app.rs, on the keys handle_key_event passes on
from_key(key) ==
    CASE key = "Up"    -> "North"
      [] key = "Down"  -> "South"
      [] key = "Left"  -> "West"
      [] key = "Right" -> "East"

\* Position::shift of app.rs
app_shift_overflows(pos, direction) ==
    CASE direction = "North" -> pos.y = 0
      [] direction = "East"  -> pos.x = U16Max
      [] direction = "South" -> pos.y = U16Max
      [] direction = "West"  -> pos.x = 0

app_shift(pos, direction) ==
    CASE direction = "North" -> Pos(pos.x, (pos.y - 1) % (U16Max + 1))
      [] direction = "East"  -> Pos((pos.x + 1) % (U16Max + 1), pos.y)
      [] direction = "South" -> Pos(pos.x, (pos.y + 1) % (U16Max + 1))
      [] direction = "West"  -> Pos((pos.x - 1) % (U16Max + 1), pos.y)

\* App::update_direction: the new value of *old_direction
update_direction(old_direction, new_direction) ==
    CASE old_direction = "North" /\ new_direction = "East"  -> "East"
      [] old_direction = "North" /\ new_direction = "West"  -> "West"
      [] old_direction = "East"  /\ new_direction = "North" -> "North"
      [] old_direction = "East"  /\ new_direction = "South" -> "South"
      [] old_direction = "South" /\ new_direction = "East"  -> "East"
      [] old_direction = "South" /\ new_direction = "West"  -> "West"
      [] old_direction = "West"  /\ new_direction = "North" -> "North"
      [] old_direction = "West"  /\ new_direction = "South" -> "South"
      [] OTHER -> old_direction

\* App::move_head, the run sequence part
move_head(segs, direction) ==
    IF segs[Len(segs)].direction # direction
    THEN Append(segs, Segment(direction, 1))
    ELSE [segs EXCEPT ![Len(segs)].length = @ + 1]

\* App::move_tail
move_tail(segs) ==
    LET length == segs[1].length - 1
    IN IF length = 0
       THEN Tail(segs)
       ELSE [segs EXCEPT ![1].length = length]

\* the positions App::move_snake can draw for the food
app_food_range ==
    {Pos(px, py) : px \in 0 .. (FoodModulus - 1), py \in 0 .. (FoodModulus - 1)}

AppOutcome(head, segs, food, st) ==
    [head_pos |-> head, segments |-> segs, food_pos |-> food, status |-> st]

\* App::move_snake: the states the call can end in.  The subtraction or
\* addition of Position::shift that leaves u16 panics in a build with
\* overflow checks and wraps in a build without them.
app_move_snake(head, segs, food, direction) ==
    LET new_head == app_shift(head, direction)
        new_segs == move_head(segs, direction)
        moved ==
            IF new_head = food
            THEN {AppOutcome(new_head, new_segs, p, "ok") : p \in app_food_range}
            ELSE IF new_segs[1].length = 0
                 THEN {AppOutcome(new_head, new_segs, food, "panic"),
                       AppOutcome(new_head, new_segs, food, "wrapped")}
                 ELSE {AppOutcome(new_head, move_tail(new_segs), food, "ok")}
    IN IF app_shift_overflows(head, direction)
       THEN {AppOutcome(head, segs, food, "panic")}
            \cup {[o EXCEPT !.status = "wrapped"] : o \in moved}
       ELSE moved

\* App::default(); area is the frame of the terminal that draw renders into
\* (App itself has no area)
InitApp ==
    /\ head_pos = Pos(14, 29)
    /\ exit = FALSE
    /\ food_pos = Pos(17, 3)
    /\ segments = <<Segment("West", 1), Segment("North", 5), Segment("East", 2),
                    Segment("South", 3), Segment("East", 3)>>
    /\ area = Rect(0, 0, TermWidth, TermHeight)
    /\ pc = "loop"
    /\ next_direction = "none"
    /\ frames = 0
    /\ tick = NoTick
    /\ status = "ok"
    /\ prev = NoPrev
    /\ candidates = {}
    /\ result = <<>>
    /\ food_color = "Green"
    /\ snake_color = "Yellow"
    /\ straight = 0

\* Mutant of loop_continues: the exit flag is not looked at.
loop_continues_always(exit_flag) == TRUE

\* the test of the while loop of App::run
loop_continues(exit_flag) == ~exit_flag

\* App::run, from the while test to the start of the while-let loop: the
\* frame is drawn, the tick is waited for, next_direction is initialised
draw_frame ==
    /\ status = "ok"
    /\ pc = "loop"
    /\ loop_continues(exit)
    /\ tick.count < MaxTicks
    /\ frames' = frames + 1
    /\ IF segments = <<>>
       THEN /\ status' = "panic"
            /\ UNCHANGED <<pc, next_direction, tick>>
       ELSE /\ next_direction' = segments[Len(segments)].direction
            /\ pc' = "events"
            /\ tick' = [tick EXCEPT !.count = @ + 1,
                                    !.heading = segments[Len(segments)].direction,
                                    !.last_key = "none",
                                    !.events = 0,
                                    !.applied = "none"]
            /\ UNCHANGED status
    /\ UNCHANGED <<area, head_pos, segments, food_pos, prev, candidates, result,
                   food_color, snake_color, straight, exit>>

\* App::run: the while test fails and run returns Ok(())
return_ok ==
    /\ status = "ok"
    /\ pc = "loop"
    /\ ~loop_continues(exit)
    /\ pc' = "returned"
    /\ UNCHANGED <<area, head_pos, segments, food_pos, status, prev, candidates,
                   result, food_color, snake_color, straight, exit,
                   next_direction, frames, tick>>

\* one iteration of the while-let loop: read_event returns Some(event) and
\* handle_event / handle_key_event run the closure of the key
read_event ==
    /\ status = "ok"
    /\ pc = "events"
    /\ tick.events < MaxEvents
    /\ \E event \in Events :
          /\ (event.press /\ event.code \in ArrowKeys) => tick.count <= MaxArrowTicks
          /\ IF event.press /\ event.code = "q"
             THEN /\ exit' = TRUE
                  /\ next_direction' = next_direction
                  /\ tick' = [tick EXCEPT !.events = @ + 1]
             ELSE IF event.press /\ event.code \in ArrowKeys
             THEN /\ next_direction' =
                        update_direction(next_direction, from_key(event.code))
                  /\ exit' = exit
                  /\ tick' = [tick EXCEPT !.events = @ + 1,
                                          !.last_key = event.code]
             ELSE /\ exit' = exit
                  /\ next_direction' = next_direction
                  /\ tick' = [tick EXCEPT !.events = @ + 1]
    /\ UNCHANGED <<area, head_pos, segments, food_pos, status, prev, candidates,
                   result, food_color, snake_color, straight, pc, frames>>

\* read_event returns None: the while-let loop ends and
\* self.move_snake(&next_direction) closes the tick
move_after_events ==
    /\ status = "ok"
    /\ pc = "events"
    /\ \E o \in app_move_snake(head_pos, segments, food_pos, next_direction) :
          /\ head_pos' = o.head_pos
          /\ segments' = o.segments
          /\ food_pos' = o.food_pos
          /\ status' = o.status
    /\ pc' = "loop"
    /\ tick' = [tick EXCEPT !.applied = next_direction,
                            !.moves = @ + 1,
                            !.moved_after_quit = @ \/ exit]
    /\ UNCHANGED <<area, prev, candidates, result, food_color, snake_color,
                   straight, exit, next_direction, frames>>

NextApp ==
    \/ draw_frame
    \/ return_ok
    \/ read_event
    \/ move_after_events

SpecApp == InitApp /\ [][NextApp]_vars

----------------------------------------------------------------------------
(* Vocabulary of the properties *)

\* a call of update_snake_position has been made
Stepped == prev.input \in Direction

\* head_direction() before the last call
PrevHeading == head_direction(prev.segments)

Perpendicular(a, b) == a # b /\ a # opposite(b)

\* the heading the last call has to use
EffectiveHeading ==
    IF Perpendicular(PrevHeading, prev.input) THEN prev.input ELSE PrevHeading

DX(d) == CASE d = "East" -> 1 [] d = "West" -> -1 [] OTHER -> 0

DY(d) == CASE d = "South" -> 1 [] d = "North" -> -1 [] OTHER -> 0

InInterior(r, pos) ==
    /\ r.x + 1 <= pos.x /\ pos.x <= r.x + r.width - 2
    /\ r.y + 1 <= pos.y /\ pos.y <= r.y + r.height - 2

\* the last call moved the head onto the food
Ate == Stepped /\ Pos(prev.head_pos.x + DX(EffectiveHeading),
                      prev.head_pos.y + DY(EffectiveHeading)) = prev.food_pos

----------------------------------------------------------------------------
\* C1: the heading used by a step is the requested one if it is perpendicular
\* to the heading before the call; a request equal to the heading or to its
\* opposite keeps the heading, pushes no run, moves the head straight on and
\* raises no error of its own (the call can only abort where a straight step
\* aborts, in the food relocation).
C1_TurnLegality ==
    Stepped =>
        IF Perpendicular(PrevHeading, prev.input)
        THEN head_direction(segments) = prev.input
        ELSE /\ head_direction(segments) = PrevHeading
             /\ Len(segments) <= Len(prev.segments)
             /\ head_pos.x = prev.head_pos.x + DX(PrevHeading)
             /\ head_pos.y = prev.head_pos.y + DY(PrevHeading)
             /\ (status # "ok" => head_pos = prev.food_pos)

\* a reversal was requested and the snake went straight on
C1_Witness ==
    /\ Stepped
    /\ status = "ok"
    /\ prev.input = opposite(PrevHeading)
    /\ head_direction(segments) = PrevHeading

\* C2: after a call the head is the previous head moved by one unit in the
\* effective heading (North y-1, South y+1, East x+1, West x-1) and
\* head_direction() is the effective heading.
C2_StepAdvancement ==
    Stepped =>
        /\ head_pos.x = prev.head_pos.x + DX(EffectiveHeading)
        /\ head_pos.y = prev.head_pos.y + DY(EffectiveHeading)
        /\ head_direction(segments) = EffectiveHeading

\* a step to the north after a turn
C2_Witness ==
    /\ Stepped
    /\ prev.input = "North"
    /\ PrevHeading = "East"
    /\ head_pos.y = prev.head_pos.y - 1

\* C3: a step onto the food lengthens the body by one cell and removes no
\* cell; any other step keeps the length, removes the oldest cell and adds
\* the new head.
C3_GrowthShrink ==
    Stepped =>
        LET old == painted_cells(prev.head_pos, prev.segments)
            new == painted_cells(head_pos, segments)
        IN IF head_pos = prev.food_pos
           THEN /\ body_length(segments) = body_length(prev.segments) + 1
                /\ new = <<head_pos>> \o old
           ELSE /\ body_length(segments) = body_length(prev.segments)
                /\ new = <<head_pos>> \o SubSeq(old, 1, Len(old) - 1)

\* the snake has eaten and a later step has shortened a front run of 2 cells
C3_Witness ==
    /\ Stepped
    /\ status = "ok"
    /\ head_pos # prev.food_pos
    /\ prev.segments[1].length >= 2
    /\ body_length(segments) > MaxInitLen

\* C4: the food is never on a cell of the snake.
C4_FoodDisjoint == food_pos \notin cell_set(head_pos, segments)

\* C5 as claimed: has_self_intersection() is true iff the head is on another
\* of the cells the runs cover (the cells render paints).
C5_Original ==
    has_self_intersection(segments)
        <=> \E k \in 2 .. body_length(segments) :
               painted_cells(head_pos, segments)[k] = head_pos

\* C5, amended: has_self_intersection() is true iff the head is on another
\* painted cell or on the cell one step behind the tail end, i.e. on a
\* position 1 .. body length steps back along the runs.
C5_SelfIntersection ==
    has_self_intersection(segments)
        <=> \E k \in 1 .. body_length(segments) :
               walk_back(head_pos, segments, k) = head_pos

\* the head has run into the body
C5_Witness ==
    /\ Stepped
    /\ has_self_intersection(segments)
    /\ \E k \in 2 .. body_length(segments) :
          painted_cells(head_pos, segments)[k] = head_pos

\* C8: when the snake eats, the relocation draws from exactly the interior
\* cells that no body cell occupies.
C8_Candidates ==
    (Stepped /\ head_pos = prev.food_pos)
        => candidates = {p \in InteriorCells(area) : p \notin cell_set(head_pos, segments)}

\* C9: the food and every body cell are in the interior, except for the
\* head once it touches the border.
C9_Interior ==
    /\ InInterior(area, food_pos)
    /\ \A k \in 1 .. body_length(segments) :
          \/ InInterior(area, painted_cells(head_pos, segments)[k])
          \/ (k = 1 /\ touches_border(area, head_pos))

\* the food has been relocated and the head is on the border
C9_Witness ==
    /\ Stepped
    /\ candidates # {}
    /\ touches_border(area, head_pos)

\* C10: a call from a state with the head in the interior completes.
C10_AlwaysSucceeds == status = "ok"

----------------------------------------------------------------------------
\* the relative position k unit steps back from the head along the runs
RECURSIVE displacement(_, _)
displacement(steps, k) ==
    IF k = 0
    THEN <<0, 0>>
    ELSE LET d == displacement(steps, k - 1)
             back == opposite(steps[Len(steps) - k + 1])
         IN <<d[1] + DX(back), d[2] + DY(back)>>

revisits_head(segs) ==
    \E k \in 1 .. body_length(segs) : displacement(unit_steps(segs), k) = <<0, 0>>

square == <<Segment("North", 1), Segment("East", 1), Segment("South", 1), Segment("West", 1)>>

rectangle == <<Segment("North", 2), Segment("East", 1), Segment("South", 2), Segment("West", 1)>>

p_shape == <<Segment("North", 2), Segment("East", 1), Segment("South", 1), Segment("West", 1)>>

c_shape == <<Segment("North", 2), Segment("East", 1), Segment("South", 1)>>

\* C6: on every run sequence with lengths >= 1 the counter algorithm returns
\* what a scan of the path 1 .. sum of lengths steps back from the head
\* returns; square, rectangle and P give true, C gives false.
C6_Equivalence ==
    result # <<>> =>
        /\ result[1] = revisits_head(segments)
        /\ segments \in {square, rectangle, p_shape} => result[1] = TRUE
        /\ segments = c_shape => result[1] = FALSE

\* the P path has been queried: a run of 2 jumps over the head's row
C6_Witness == result = <<TRUE>> /\ segments = p_shape

\* C7: touches_border() is true iff the head is outside the area shrunk by
\* one cell on every side; for an area at the origin the four border lines
\* give true and the cells strictly inside give false.
C7_Border ==
    result # <<>> =>
        /\ result[1] = ~InInterior(area, head_pos)
        /\ (area.x = 0 /\ area.y = 0) =>
              /\ (\/ head_pos.x \in {0, area.width - 1}
                  \/ head_pos.y \in {0, area.height - 1}) => result[1] = TRUE
              /\ (/\ 1 <= head_pos.x /\ head_pos.x <= area.width - 2
                  /\ 1 <= head_pos.y /\ head_pos.y <= area.height - 2)
                    => result[1] = FALSE

\* a head on the last column of an area away from the origin
C7_Witness ==
    /\ result = <<TRUE>>
    /\ area.x > 0
    /\ area.width >= 3 /\ area.height >= 3
    /\ head_pos.x = area.x + area.width - 1
    /\ area.y < head_pos.y /\ head_pos.y < area.y + area.height - 1

----------------------------------------------------------------------------
\* C11: the run sequence is never empty, every run has at least one cell,
\* adjacent runs are perpendicular, and consecutive painted cells differ by
\* exactly one unit along exactly one axis.
C11_WellFormed ==
    /\ segments # <<>>
    /\ \A i \in 1 .. Len(segments) : segments[i].length >= 1
    /\ \A i \in 1 .. Len(segments) - 1 :
          Perpendicular(segments[i].direction, segments[i + 1].direction)
    /\ LET cells == painted_cells(head_pos, segments)
       IN /\ Len(cells) >= 1
          /\ \A k \in 1 .. Len(cells) - 1 :
                LET ax == cells[k].x - cells[k + 1].x
                    ay == cells[k].y - cells[k + 1].y
                IN \/ (ax \in {-1, 1} /\ ay = 0)
                   \/ (ax = 0 /\ ay \in {-1, 1})

\* a turn has pushed a run and a tail shift has popped the front run
C11_Witness ==
    /\ Stepped
    /\ status = "ok"
    /\ Len(prev.segments) >= 2
    /\ prev.segments[1].length = 1
    /\ Perpendicular(PrevHeading, prev.input)
    /\ head_pos # prev.food_pos
    /\ segments = Append(Tail(prev.segments), Segment(prev.input, 1))

----------------------------------------------------------------------------
\* C14: the three queries change no part of the state; a call of
\* update_snake_position never changes area, food_color or snake_color and
\* changes food_pos only when the new head is the food position held before.
C14_Frame ==
    [][ /\ area' = area
        /\ food_color' = food_color
        /\ snake_color' = snake_color
        /\ (result' # <<>> =>
               /\ head_pos' = head_pos
               /\ segments' = segments
               /\ food_pos' = food_pos
               /\ status' = status)
        /\ (food_pos' # food_pos => head_pos' = food_pos) ]_vars

\* a query has returned after a step that relocated the food
C14_Witness ==
    /\ Stepped
    /\ result # <<>>
    /\ food_pos # prev.food_pos
    /\ head_pos = prev.food_pos

----------------------------------------------------------------------------
LongerSide(r) == IF r.width >= r.height THEN r.width ELSE r.height

\* C16: after k calls in a row with requests that are not perpendicular to
\* the heading, either the head touches the border or the run is still
\* going (the last call completed) with k below max(width, height).
C16_BorderInevitable ==
    straight > 0 =>
        \/ touches_border(area, head_pos)
        \/ (status = "ok" /\ straight < LongerSide(area))

----------------------------------------------------------------------------
(* Properties of the game loop *)

\* the snake of App::run has been moved and has hit the border of the frame
\* or itself
GameOver ==
    /\ tick.moves >= 1
    /\ touches_border(area, head_pos) \/ has_self_intersection(segments)

\* C12: once the state after a step has touches_border() or
\* has_self_intersection() true the session is over: no further step is
\* applied to the snake.
C12_GameOverTerminal ==
    [][ GameOver => (head_pos' = head_pos /\ segments' = segments) ]_vars

\* C13: the direction applied to the move of a tick is the legality filter
\* applied to the heading at the start of the tick and the last arrow key
\* pressed in the tick; without an arrow key it is the heading.
C13_LastKeyWins ==
    tick.applied # "none" =>
        tick.applied =
            IF tick.last_key = "none"
            THEN tick.heading
            ELSE IF Perpendicular(tick.heading, from_key(tick.last_key))
                 THEN from_key(tick.last_key)
                 ELSE tick.heading

\* C15: the direction passed to move_snake in a tick is never the opposite
\* of the heading at the start of the tick.
C15_NoReversal ==
    tick.applied # "none" => tick.applied # opposite(tick.heading)

\* C17 as claimed: once the quit key is processed the exit flag stays set, no
\* further frame is drawn, no further tick starts and the snake is not
\* advanced any more.
C17_Original ==
    [][ exit => /\ exit'
                /\ frames' = frames
                /\ tick.count' = tick.count
                /\ head_pos' = head_pos
                /\ segments' = segments
                /\ food_pos' = food_pos ]_vars

\* C17, amended: once the quit key is processed the exit flag stays set, no
\* further frame is drawn and no further tick starts; the events left in the
\* tick are still read and the snake is advanced by the one move that closes
\* the tick, after which the loop can only return.
C17_Quit ==
    [][ exit => /\ exit'
                /\ frames' = frames
                /\ tick.count' = tick.count
                /\ (head_pos' # head_pos \/ segments' # segments \/ food_pos' # food_pos)
                      => (pc = "events" /\ ~tick.moved_after_quit
                            /\ tick'.applied = next_direction)
                /\ pc = "loop" => pc' = "returned"
                /\ pc = "returned" => UNCHANGED vars ]_vars

\* run has returned after a quit key that was followed by the move of its tick
C17_Witness ==
    /\ pc = "returned"
    /\ exit
    /\ tick.moved_after_quit
    /\ tick.applied = next_direction

\* C18: the coordinates of the head stay within u16: Position::shift never
\* subtracts 1 from 0 and never adds 1 to 65535.
C18_CoordinateRange ==
    /\ status \notin {"panic", "wrapped"}
    /\ head_pos.x \in 0 .. U16Max
    /\ head_pos.y \in 0 .. U16Max

====
